---- MODULE Spec2Model ----
(***************************************************************************)
(* Model of the four ESXi modules of jasperla/ansible-vmware:              *)
(*   vmware_service.py, vmware_datetime_config.py,                         *)
(*   vmware_advanced_setting.py and vmware_esxi_facts.py.                  *)
(*                                                                         *)
(* One behaviour is a series of invocations of ONE module's main() with    *)
(* the same parameters against one host; nothing else changes the host     *)
(* between the invocations.  Every statement of main() and of the          *)
(* reconciler it calls that talks to the host is one step.                 *)
(*                                                                         *)
(* Strings that the code parses or rewrites (the option path, the option   *)
(* value) are sequences of one-character strings; all other strings are    *)
(* opaque.                                                                 *)
(*                                                                         *)
(* Collaborators (not part of the repository):                             *)
(*  - AnsibleModule.fail_json / exit_json print one report and raise       *)
(*    SystemExit, which "except Exception" does not catch: a report ends   *)
(*    the invocation.                                                      *)
(*  - every remote call may raise vmodl.RuntimeFault or vmodl.MethodFault; *)
(*    a call that raised has not changed the host.                         *)
(***************************************************************************)
EXTENDS Integers, Sequences, FiniteSets, TLC

(***************************************************************************)
(* Bounds of the model.                                                    *)
(***************************************************************************)
MaxRuns == 2        \* invocations in a row in one behaviour
MaxNtpLen == 2      \* length of an NTP server list
MaxPathLen == 4     \* length of an option path
MaxValueLen == 2    \* length of a supplied option value
MaxNics == 2        \* physical / virtual NICs of the host
MaxMounts == 2      \* mount points of the host

(***************************************************************************)
(* Generic helpers.                                                        *)
(***************************************************************************)
SeqsUpTo(S, n) == UNION {[1..k -> S] : k \in 0..n}

Range(s) == {s[i] : i \in DOMAIN s}

\* Number of entries of the sequence s that satisfy P.
Count(s, P(_)) == Cardinality({i \in DOMAIN s : P(s[i])})

(***************************************************************************)
(* Parameter domains (argument_spec of the four main()).                   *)
(***************************************************************************)
\* choices=['running', 'stopped', 'restarted']
StateChoices == {"running", "stopped", "restarted"}

\* choices=['on', 'off', 'automatic']
PolicyChoices == {"on", "off", "automatic"}

\* SUPPORTED_TYPES = ['all', 'hardware', 'network', 'storage', 'datastore', 'system']
SUPPORTED_TYPES == <<"all", "hardware", "network", "storage", "datastore", "system">>

\* The service keys a host may carry.
ServiceKeys == {"ntpd", "TSM-SSH"}

NtpServerNames == {"ntp-001", "ntp-002"}

NtpLists == SeqsUpTo(NtpServerNames, MaxNtpLen)

\* What QueryAvailableTimeZones() returns on the modelled host.
AvailableTimeZones == {"UTC", "CET"}

\* Values of the timezone parameter: "" stands for a parameter that was not
\* given (None) or is empty, both false for "if timezone and ...".
TimezoneParams == {"", "UTC", "CET", "Mars/Olympus"}

Faults == {"RuntimeFault", "MethodFault"}

Outcomes == {"ok"} \cup Faults

MutationOps ==
  {"StartService", "StopService", "RestartService", "UpdateServicePolicy",
   "UpdateDateTimeConfig", "UpdateOptions"}

VARIABLES
  prog,            \* which module's main() this behaviour invokes
  params,          \* module.params
  run,             \* number of the current invocation
  prev,            \* how the previous invocation ended (Outcome), "none" at first
  pc,              \* position in main()
  services,        \* host: serviceSystem.serviceInfo.service, by key
  dateTimeInfo,    \* host: dateTimeSystem.dateTimeInfo
  advancedOption,  \* host: the advanced options, by key
  inventory,       \* host: read-only network and storage description
  host,            \* local of main: the mapping get_all_objs returned
  host_system,     \* local of main
  option,          \* local of vmware_advanced_setting.main (normalized)
  service,         \* local: manage_service.service / ntpd_service
  options,         \* local of apply_setting: result of QueryOptions
  changed,         \* local of the reconciler
  types,           \* local of vmware_esxi_facts.main
  result,          \* local of vmware_esxi_facts.main
  calls,           \* remote method calls issued in this invocation
  reports          \* reports emitted in this invocation

vars ==
  <<prog, params, run, prev, pc, services, dateTimeInfo, advancedOption,
    inventory, host, host_system, option, service, options, changed, types,
    result, calls, reports>>

hostVars == <<services, dateTimeInfo, advancedOption, inventory>>

runVars == <<prog, params, run, prev>>

localVars == <<host, host_system, option, service, options, changed, types, result>>


(***************************************************************************)
(* The host.                                                               *)
(***************************************************************************)
\* A service of serviceInfo.service: running flag and policy.
ServiceRecords == [running : BOOLEAN, policy : PolicyChoices]

\* serviceInfo.service as a map from the keys present to their records.
ServiceMaps == UNION {[S -> ServiceRecords] : S \in SUBSET ServiceKeys}

DefaultService == [running |-> TRUE, policy |-> "on"]

\* Character strings: sequences of one-character strings.
PathChars == {"/", ".", "U", "S"}

OptionPaths == SeqsUpTo(PathChars, MaxPathLen)

ValueChars == {"0", "5", "6", "-", "x"}

ValueStrings == SeqsUpTo(ValueChars, MaxValueLen)

\* The one advanced option of the modelled host, UserVars.SuppressShellWarning
\* written with one letter per component.
OptionKey == <<"U", ".", "S">>

\* Typed option values the host may hold, tagged with type(value).__name__
\* under Python 2: 'int' stands for every type the code does not handle.
OptionValues ==
  [type : {"long"}, value : {-5, 0, 5, 6}]
    \cup [type : {"str"}, value : {<<"5">>, <<"x">>}]
    \cup [type : {"bool"}, value : BOOLEAN]
    \cup [type : {"int"}, value : {5}]

\* Physical NICs: linkSpeed is <<>> (None) or a one-element sequence.
LinkSpeeds == {<<>>, <<[speedMb |-> 1000, duplex |-> TRUE]>>}

PnicOf(i, ls) ==
  [device |-> i, driver |-> "ixgbe", mac |-> "mac-p", pci |-> "pci",
   linkSpeed |-> ls]

PnicLists ==
  UNION {{[i \in 1..k |-> PnicOf(i, f[i])] : f \in [1..k -> LinkSpeeds]}
         : k \in 0..MaxNics}

\* Virtual NICs: ipV6Config is <<>> (None) or a one-element sequence holding
\* a configuration whose address list may be empty.
V6Address == [ipAddress |-> "fe80::1", prefixLength |-> 64]

V6Configs ==
  {<<>>,
   <<[ipV6Address |-> <<>>, autoConfigurationEnabled |-> TRUE,
      dhcpV6Enabled |-> FALSE]>>,
   <<[ipV6Address |-> <<V6Address>>, autoConfigurationEnabled |-> TRUE,
      dhcpV6Enabled |-> FALSE]>>}

VnicOf(i, v6) ==
  [device |-> i, portgroup |-> "Management",
   spec |-> [mac |-> "mac-v", mtu |-> 1500,
             ip |-> [ipAddress |-> "10.0.0.1", subnetMask |-> "255.0.0.0",
                     dhcp |-> FALSE, ipV6Config |-> v6]]]

VnicLists ==
  UNION {{[i \in 1..k |-> VnicOf(i, f[i])] : f \in [1..k -> V6Configs]}
         : k \in 0..MaxNics}

\* Mount points of fileSystemVolumeInfo.mountInfo: the volume named i.
MountOf(i, acc) ==
  [volume |-> [name |-> i, capacity |-> 1024, type |-> "VMFS"],
   vStorageSupport |-> "supported",
   mountInfo |-> [path |-> "/vmfs", accessMode |-> "readWrite",
                  mounted |-> TRUE, accessible |-> acc,
                  inaccessibleReason |-> IF acc THEN "" ELSE "AllPathsDown"]]

\* The volume names of the modelled hosts: m.volume.name is no key of the
\* SDK, two mounts of a list may carry the same name.
MountNames == {1, 2}

MountLists ==
  UNION {{[i \in 1..k |-> MountOf(n[i], f[i])]
            : n \in [1..k -> MountNames], f \in [1..k -> BOOLEAN]}
         : k \in 0..MaxMounts}

DefaultInventory ==
  [pnic |-> <<PnicOf(1, <<>>)>>,
   vnic |-> <<VnicOf(1, <<>>)>>,
   mountInfo |-> <<MountOf(1, TRUE)>>]

DefaultDateTime == [server |-> <<>>, timeZone |-> "UTC"]

DefaultOptions == [k \in {OptionKey} |-> [type |-> "long", value |-> 5]]

DefaultServices == [k \in ServiceKeys |-> DefaultService]

\* get_all_objs(content, [vim.HostSystem]): the host objects found, in the
\* order of the mapping's keys().
HostMaps == {<<>>, <<"esx1">>, <<"esx1", "esx2">>}

(***************************************************************************)
(* Initial states: a module, its parameters and a host.  The parts of the  *)
(* host a module never reads are kept at one value.                        *)
(***************************************************************************)
NoService == [running |-> FALSE, policy |-> ""]

InitLocals ==
  /\ run = 1
  /\ prev = "none"
  /\ pc = "main"
  /\ host = <<>>
  /\ host_system = ""
  /\ option = <<>>
  /\ service = NoService
  /\ options = <<>>
  /\ changed = FALSE
  /\ types = <<>>
  /\ result = [changed |-> FALSE, esxi_facts |-> <<>>]
  /\ calls = <<>>
  /\ reports = <<>>

InitService ==
  /\ prog = "vmware_service"
  /\ params \in [name : ServiceKeys, state : StateChoices, policy : PolicyChoices]
  /\ services \in ServiceMaps
  /\ dateTimeInfo = DefaultDateTime
  /\ advancedOption = DefaultOptions
  /\ inventory = DefaultInventory

InitDatetime ==
  /\ prog = "vmware_datetime_config"
  /\ params \in [ntp_servers : NtpLists, ntpd_state : StateChoices,
                 timezone : TimezoneParams]
  /\ services \in
       {[k \in {"TSM-SSH"} |-> DefaultService]}
         \cup {[k \in ServiceKeys |->
                  IF k = "ntpd" THEN [running |-> r, policy |-> "on"]
                  ELSE DefaultService] : r \in BOOLEAN}
  /\ dateTimeInfo \in [server : NtpLists, timeZone : AvailableTimeZones]
  /\ advancedOption = DefaultOptions
  /\ inventory = DefaultInventory

InitSetting ==
  /\ prog = "vmware_advanced_setting"
  /\ \/ /\ params \in [option : OptionPaths, value : {<<"5">>, <<"6">>}]
        /\ advancedOption = DefaultOptions
     \/ /\ params \in [option : {<<"/", "U", "/", "S">>, OptionKey},
                       value : ValueStrings]
        /\ advancedOption \in [{OptionKey} -> OptionValues]
  /\ services = DefaultServices
  /\ dateTimeInfo = DefaultDateTime
  /\ inventory = DefaultInventory

InitFacts ==
  /\ prog = "vmware_esxi_facts"
  /\ params \in [types : Range(SUPPORTED_TYPES)]
  /\ \/ inventory \in [pnic : PnicLists, vnic : VnicLists,
                       mountInfo : {DefaultInventory.mountInfo}]
     \/ inventory \in [pnic : {DefaultInventory.pnic},
                       vnic : {DefaultInventory.vnic},
                       mountInfo : MountLists]
  /\ services = DefaultServices
  /\ dateTimeInfo = DefaultDateTime
  /\ advancedOption = DefaultOptions

Init ==
  /\ InitLocals
  /\ (InitService \/ InitDatetime \/ InitSetting \/ InitFacts)

(***************************************************************************)
(* Reports.  module.fail_json / module.exit_json emit the report and end   *)
(* the invocation.                                                         *)
(***************************************************************************)
FailReport(m) == [kind |-> "fail_json", changed |-> FALSE, msg |-> m]

ExitReport(c, f) ==
  [kind |-> "exit_json", changed |-> c, msg |-> <<>>, facts |-> f]

FailJson(m) ==
  /\ reports' = Append(reports, FailReport(m))
  /\ pc' = "done"

Call(op, arg) == [op |-> op, arg |-> arg]

(***************************************************************************)
(* Steps shared by the four main().                                        *)
(***************************************************************************)
\* if not HAS_PYVMOMI: module.fail_json(...)
CheckPyvmomi ==
  /\ pc = "pyvmomi"
  /\ \E HAS_PYVMOMI \in BOOLEAN :
       IF ~HAS_PYVMOMI
       THEN FailJson(<<"pyvmomi is required for this module">>)
       ELSE pc' = "connect" /\ UNCHANGED reports
  /\ UNCHANGED <<runVars, hostVars, localVars, calls>>

\* content = connect_to_api(module): returns, or raises (a fault or any
\* other exception), which the handlers of main() turn into a failure report.
ConnectToApi ==
  /\ pc = "connect"
  /\ \/ pc' = "lookup" /\ UNCHANGED reports
     \/ \E f \in Faults : FailJson(<<f>>)
     \/ FailJson(<<"Unable to connect">>)
  /\ UNCHANGED <<runVars, hostVars, localVars, calls>>

\* Where main() goes after the host lookup.
AfterLookup ==
  CASE prog = "vmware_service" -> "manage_service"
    [] prog = "vmware_datetime_config" -> "ntp_servers"
    [] prog = "vmware_advanced_setting" -> "query_options"
    [] prog = "vmware_esxi_facts" -> "get_facts"

\* host.keys()[0] taken at the last key instead of the first.
LastHost(mapping) == mapping[Len(mapping)]

\* host.keys()[0]
FirstHost(mapping) == mapping[1]

\* host = get_all_objs(content, [vim.HostSystem])
\* if not host: module.fail_json(...)
\* host_system = host.keys()[0]
GetAllObjs ==
  /\ pc = "lookup"
  /\ \/ \E mapping \in HostMaps :
          /\ host' = mapping
          /\ IF mapping = <<>>
             THEN /\ FailJson(<<"Unable to locate Physical Host.">>)
                  /\ UNCHANGED host_system
             ELSE /\ host_system' = FirstHost(mapping)
                  /\ pc' = AfterLookup
                  /\ UNCHANGED reports
     \/ \E f \in Faults : FailJson(<<f>>) /\ UNCHANGED <<host, host_system>>
  /\ UNCHANGED <<runVars, hostVars, option, service, options, changed, types,
                 result, calls>>

\* module.exit_json(changed=changed) of the three mutating modules.
ExitJson ==
  /\ pc = "exit_json"
  /\ prog # "vmware_esxi_facts"
  /\ reports' = Append(reports, ExitReport(changed, <<>>))
  /\ pc' = "done"
  /\ UNCHANGED <<runVars, hostVars, localVars, calls>>

\* How an invocation ended, from its reports: "fail_json", or the changed
\* verdict of its success report.
Outcome(rs) ==
  IF rs = <<>> THEN "none"
  ELSE IF rs[Len(rs)].kind = "fail_json" THEN "fail_json"
  ELSE IF rs[Len(rs)].changed THEN "changed"
  ELSE "unchanged"

\* The next invocation of the same module with the same parameters.
Reinvoke ==
  /\ pc = "done"
  /\ run < MaxRuns
  /\ run' = run + 1
  /\ prev' = Outcome(reports)
  /\ pc' = "main"
  /\ host' = <<>>
  /\ host_system' = ""
  /\ option' = <<>>
  /\ service' = NoService
  /\ options' = <<>>
  /\ changed' = FALSE
  /\ types' = <<>>
  /\ result' = [changed |-> FALSE, esxi_facts |-> <<>>]
  /\ calls' = <<>>
  /\ reports' = <<>>
  /\ UNCHANGED <<prog, params, hostVars>>


(***************************************************************************)
(* The host's reaction to the calls of serviceSystem and dateTimeSystem.   *)
(***************************************************************************)
\* StartService / StopService / RestartService(key): after a restart the
\* service runs.
HostRunState(svc, key, op) ==
  [svc EXCEPT ![key].running = (op # "StopService")]

\* UpdateServicePolicy(key, policy)
HostPolicy(svc, key, policy) == [svc EXCEPT ![key].policy = policy]

\* The attributes of pyVmomi's vim namespace the modules use; any other
\* attribute raises AttributeError.
VimTypes == {"HostSystem", "HostNtpConfig", "HostDateTimeConfig"}

(***************************************************************************)
(* vmware_service.py                                                       *)
(***************************************************************************)
\* main(), up to the check of HAS_PYVMOMI.
ServiceMain ==
  /\ pc = "main"
  /\ prog = "vmware_service"
  /\ pc' = "pyvmomi"
  /\ UNCHANGED <<runVars, hostVars, localVars, calls, reports>>

\* service_lst = [s for s in services if s.key == name]
ServiceLst(svc, name) == {k \in DOMAIN svc : k = name}

\* Variant: the missing service is not noticed before the run-state step.
ManageServiceFindUnchecked ==
  /\ pc = "manage_service"
  /\ \/ /\ service' = IF ServiceLst(services, params.name) = {}
                       THEN [running |-> FALSE, policy |-> "on"]
                       ELSE services[params.name]
        /\ changed' = FALSE
        /\ pc' = "service_state"
        /\ UNCHANGED reports
     \/ \E f \in Faults : FailJson(<<f>>) /\ UNCHANGED <<service, changed>>
  /\ UNCHANGED <<runVars, hostVars, host, host_system, option, options, types,
                 result, calls>>

\* manage_service, up to "service = service_lst[0]".
ManageServiceFind ==
  /\ pc = "manage_service"
  /\ \/ IF ServiceLst(services, params.name) = {}
        THEN /\ FailJson(<<"Could not find service to manage", params.name>>)
             /\ UNCHANGED <<service, changed>>
        ELSE /\ service' = services[params.name]
             /\ changed' = FALSE
             /\ pc' = "service_state"
             /\ UNCHANGED reports
     \/ \E f \in Faults : FailJson(<<f>>) /\ UNCHANGED <<service, changed>>
  /\ UNCHANGED <<runVars, hostVars, host, host_system, option, options, types,
                 result, calls>>

\* Variant: a restart is issued only for a service that runs.
ServiceStateCallRestartIfRunning(state, running) ==
  IF state = "restarted" /\ running THEN "RestartService"
  ELSE IF state = "running" /\ ~running THEN "StartService"
  ELSE IF state = "stopped" /\ running THEN "StopService"
  ELSE "none"

\* The run-state call of manage_service for a desired state and the observed
\* running flag ("none": no call).
ServiceStateCall(state, running) ==
  IF state = "restarted" THEN "RestartService"
  ELSE IF state = "running" /\ ~running THEN "StartService"
  ELSE IF state = "stopped" /\ running THEN "StopService"
  ELSE "none"

\* Variant: a run-state call that raises a fault is issued a second time
\* before the fault is reported.
ManageServiceStateRetry ==
  /\ pc = "service_state"
  /\ LET op == ServiceStateCall(params.state, service.running) IN
       IF op = "none"
       THEN /\ pc' = "service_policy"
            /\ UNCHANGED <<services, changed, calls, reports>>
       ELSE \E o \in Outcomes :
              IF o = "ok"
              THEN /\ calls' = Append(calls, Call(op, <<params.name>>))
                   /\ services' = HostRunState(services, params.name, op)
                   /\ changed' = TRUE
                   /\ pc' = "service_policy"
                   /\ UNCHANGED reports
              ELSE /\ calls' = calls \o <<Call(op, <<params.name>>),
                                          Call(op, <<params.name>>)>>
                   /\ FailJson(<<o>>)
                   /\ UNCHANGED <<services, changed>>
  /\ UNCHANGED <<runVars, dateTimeInfo, advancedOption, inventory, host, host_system,
                 option, service, options, types, result>>

\* "First manage the service state".
ManageServiceState ==
  /\ pc = "service_state"
  /\ LET op == ServiceStateCall(params.state, service.running) IN
       IF op = "none"
       THEN /\ pc' = "service_policy"
            /\ UNCHANGED <<services, changed, calls, reports>>
       ELSE /\ calls' = Append(calls, Call(op, <<params.name>>))
            /\ \E o \in Outcomes :
                 IF o = "ok"
                 THEN /\ services' = HostRunState(services, params.name, op)
                      /\ changed' = TRUE
                      /\ pc' = "service_policy"
                      /\ UNCHANGED reports
                 ELSE /\ FailJson(<<o>>)
                      /\ UNCHANGED <<services, changed>>
  /\ UNCHANGED <<runVars, dateTimeInfo, advancedOption, inventory, host, host_system,
                 option, service, options, types, result>>

\* if policy != service.policy
PolicyDiffers(policy, svc) == policy # svc.policy

\* Variant: the policy is looked at only when no run-state call was made.
ManageServicePolicyElif ==
  /\ pc = "service_policy"
  /\ IF changed \/ ~PolicyDiffers(params.policy, service)
     THEN /\ pc' = "exit_json"
          /\ UNCHANGED <<services, changed, calls, reports>>
     ELSE /\ calls' = Append(calls, Call("UpdateServicePolicy",
                                          <<params.name, params.policy>>))
          /\ \E o \in Outcomes :
               IF o = "ok"
               THEN /\ services' = HostPolicy(services, params.name, params.policy)
                    /\ changed' = TRUE
                    /\ pc' = "exit_json"
                    /\ UNCHANGED reports
               ELSE /\ FailJson(<<o>>)
                    /\ UNCHANGED <<services, changed>>
  /\ UNCHANGED <<runVars, dateTimeInfo, advancedOption, inventory, host, host_system,
                 option, service, options, types, result>>

\* Variant: a fault of UpdateServicePolicy is answered by undoing the
\* run-state change before the failure is reported.
ManageServicePolicyRollback ==
  /\ pc = "service_policy"
  /\ IF ~PolicyDiffers(params.policy, service)
     THEN /\ pc' = "exit_json"
          /\ UNCHANGED <<services, changed, calls, reports>>
     ELSE \E o \in Outcomes :
            IF o = "ok"
            THEN /\ calls' = Append(calls, Call("UpdateServicePolicy",
                                                 <<params.name, params.policy>>))
                 /\ services' = HostPolicy(services, params.name, params.policy)
                 /\ changed' = TRUE
                 /\ pc' = "exit_json"
                 /\ UNCHANGED reports
            ELSE LET undo == IF service.running THEN "StartService"
                             ELSE "StopService"
                 IN /\ calls' = calls \o
                         <<Call("UpdateServicePolicy",
                                <<params.name, params.policy>>)>>
                         \o (IF changed THEN <<Call(undo, <<params.name>>)>>
                             ELSE <<>>)
                    /\ services' = IF changed
                                   THEN HostRunState(services, params.name, undo)
                                   ELSE services
                    /\ FailJson(<<o>>)
                    /\ UNCHANGED changed
  /\ UNCHANGED <<runVars, dateTimeInfo, advancedOption, inventory, host, host_system,
                 option, service, options, types, result>>

\* "Determine if the service needs to be started at boot", and the return.
ManageServicePolicy ==
  /\ pc = "service_policy"
  /\ IF ~PolicyDiffers(params.policy, service)
     THEN /\ pc' = "exit_json"
          /\ UNCHANGED <<services, changed, calls, reports>>
     ELSE /\ calls' = Append(calls, Call("UpdateServicePolicy",
                                          <<params.name, params.policy>>))
          /\ \E o \in Outcomes :
               IF o = "ok"
               THEN /\ services' = HostPolicy(services, params.name, params.policy)
                    /\ changed' = TRUE
                    /\ pc' = "exit_json"
                    /\ UNCHANGED reports
               ELSE /\ FailJson(<<o>>)
                    /\ UNCHANGED <<services, changed>>
  /\ UNCHANGED <<runVars, dateTimeInfo, advancedOption, inventory, host, host_system,
                 option, service, options, types, result>>

NextService ==
  \/ ServiceMain
  \/ ManageServiceFind
  \/ ManageServiceState
  \/ ManageServicePolicy

(***************************************************************************)
(* vmware_datetime_config.py                                               *)
(***************************************************************************)
DatetimeMain ==
  /\ pc = "main"
  /\ prog = "vmware_datetime_config"
  /\ pc' = "pyvmomi"
  /\ UNCHANGED <<runVars, hostVars, localVars, calls, reports>>

\* Variant: the two lists are compared as sets of servers.
NtpDiffersAsSets(current_ntp_servers, ntp_servers) ==
  Range(current_ntp_servers) # Range(ntp_servers)

\* if current_ntp_servers != ntp_servers
NtpDiffers(current_ntp_servers, ntp_servers) == current_ntp_servers # ntp_servers

\* "Configure NTP servers".
ConfigureNtpServers ==
  /\ pc = "ntp_servers"
  /\ \/ IF ~NtpDiffers(dateTimeInfo.server, params.ntp_servers)
        THEN /\ changed' = FALSE
             /\ pc' = "ntpd_service"
             /\ UNCHANGED <<dateTimeInfo, calls, reports>>
        ELSE /\ calls' = Append(calls,
                   Call("UpdateDateTimeConfig",
                        <<[ntpConfig |-> params.ntp_servers]>>))
             /\ \E o \in Outcomes :
                  IF o = "ok"
                  THEN /\ dateTimeInfo' =
                            [dateTimeInfo EXCEPT !.server = params.ntp_servers]
                       /\ changed' = TRUE
                       /\ pc' = "ntpd_service"
                       /\ UNCHANGED reports
                  ELSE /\ FailJson(<<o>>)
                       /\ UNCHANGED <<dateTimeInfo, changed>>
     \/ /\ \E f \in Faults : FailJson(<<f>>)
        /\ UNCHANGED <<dateTimeInfo, changed, calls>>
  /\ UNCHANGED <<runVars, services, advancedOption, inventory, host, host_system,
                 option, service, options, types, result>>

\* Variant: main() has no "except Exception" clause, the IndexError ends the
\* invocation without a report.
ConfigureNtpdFindUncaught ==
  /\ pc = "ntpd_service"
  /\ \/ IF {k \in DOMAIN services : k = "ntpd"} = {}
        THEN pc' = "done" /\ UNCHANGED <<service, reports>>
        ELSE /\ service' = services["ntpd"]
             /\ pc' = "ntpd_state"
             /\ UNCHANGED reports
     \/ \E f \in Faults : FailJson(<<f>>) /\ UNCHANGED service
  /\ UNCHANGED <<runVars, hostVars, host, host_system, option, options, changed,
                 types, result, calls>>

\* ntpd_service = [service for service in services if service.key == 'ntpd'][0]
\* An empty list raises IndexError, which main() reports.
ConfigureNtpdFind ==
  /\ pc = "ntpd_service"
  /\ \/ IF ServiceLst(services, "ntpd") = {}
        THEN FailJson(<<"list index out of range">>) /\ UNCHANGED service
        ELSE /\ service' = services["ntpd"]
             /\ pc' = "ntpd_state"
             /\ UNCHANGED reports
     \/ \E f \in Faults : FailJson(<<f>>) /\ UNCHANGED service
  /\ UNCHANGED <<runVars, hostVars, host, host_system, option, options, changed,
                 types, result, calls>>

\* Variant: a stopped ntpd is not started.
NtpdStateCallNoStart(ntpd_state, running) ==
  IF ntpd_state = "restarted" THEN "RestartService"
  ELSE IF ntpd_state = "stopped" /\ running THEN "StopService"
  ELSE "none"

\* The run-state call of configure_datetime for ntpd ("none": no call).
NtpdStateCall(ntpd_state, running) ==
  IF ntpd_state = "restarted" THEN "RestartService"
  ELSE IF ntpd_state = "running" /\ ~running THEN "StartService"
  ELSE IF ntpd_state = "stopped" /\ running THEN "StopService"
  ELSE "none"

\* Variant: ntpd is restarted whenever the NTP server list was updated.
ConfigureNtpdStateRestartOnChange ==
  /\ pc = "ntpd_state"
  /\ LET op == IF changed THEN "RestartService"
               ELSE NtpdStateCall(params.ntpd_state, service.running)
     IN
       IF op = "none"
       THEN /\ pc' = "timezone"
            /\ UNCHANGED <<services, changed, calls, reports>>
       ELSE /\ calls' = Append(calls, Call(op, <<"ntpd">>))
            /\ \E o \in Outcomes :
                 IF o = "ok"
                 THEN /\ services' = HostRunState(services, "ntpd", op)
                      /\ changed' = TRUE
                      /\ pc' = "timezone"
                      /\ UNCHANGED reports
                 ELSE /\ FailJson(<<o>>)
                      /\ UNCHANGED <<services, changed>>
  /\ UNCHANGED <<runVars, dateTimeInfo, advancedOption, inventory, host, host_system,
                 option, service, options, types, result>>

\* "Manage the NTP service".
ConfigureNtpdState ==
  /\ pc = "ntpd_state"
  /\ LET op == NtpdStateCall(params.ntpd_state, service.running) IN
       IF op = "none"
       THEN /\ pc' = "timezone"
            /\ UNCHANGED <<services, changed, calls, reports>>
       ELSE /\ calls' = Append(calls, Call(op, <<"ntpd">>))
            /\ \E o \in Outcomes :
                 IF o = "ok"
                 THEN /\ services' = HostRunState(services, "ntpd", op)
                      /\ changed' = TRUE
                      /\ pc' = "timezone"
                      /\ UNCHANGED reports
                 ELSE /\ FailJson(<<o>>)
                      /\ UNCHANGED <<services, changed>>
  /\ UNCHANGED <<runVars, dateTimeInfo, advancedOption, inventory, host, host_system,
                 option, service, options, types, result>>

\* Variant: a requested timezone is validated and submitted whether or not
\* it is the observed one.
TimezoneRequested(timezone, current) == timezone # ""

\* if timezone and (current_timezone.name != timezone)
TimezoneDiffers(timezone, current) == timezone # "" /\ current # timezone

\* Variant: every timezone name is accepted.
TimezoneNeverInvalid(timezone, timezones) == FALSE

\* len(list(filter(lambda t: t.name == timezone, timezones))) < 1
TimezoneInvalid(timezone, timezones) ==
  Cardinality({t \in timezones : t = timezone}) < 1

\* The name of the configuration class the timezone step instantiates.
TimezoneConfigClass == "HostDataTimeConfig"

\* "Configure the timezone", and the return.  vim.HostDataTimeConfig is no
\* attribute of vim: evaluating it raises AttributeError before
\* UpdateDateTimeConfig is reached, and main() reports the exception.
ConfigureTimezone ==
  /\ pc = "timezone"
  /\ \/ IF ~TimezoneDiffers(params.timezone, dateTimeInfo.timeZone)
        THEN /\ pc' = "exit_json"
             /\ UNCHANGED <<dateTimeInfo, changed, calls, reports>>
        ELSE \/ /\ calls' = Append(calls, Call("QueryAvailableTimeZones", <<>>))
                /\ \E f \in Faults : FailJson(<<f>>)
                /\ UNCHANGED <<dateTimeInfo, changed>>
             \/ /\ TimezoneInvalid(params.timezone, AvailableTimeZones)
                /\ calls' = Append(calls, Call("QueryAvailableTimeZones", <<>>))
                /\ FailJson(<<"Invalid timezone requested">>)
                /\ UNCHANGED <<dateTimeInfo, changed>>
             \/ /\ ~TimezoneInvalid(params.timezone, AvailableTimeZones)
                /\ TimezoneConfigClass \notin VimTypes
                /\ calls' = Append(calls, Call("QueryAvailableTimeZones", <<>>))
                /\ FailJson(<<"AttributeError", TimezoneConfigClass>>)
                /\ UNCHANGED <<dateTimeInfo, changed>>
             \/ /\ ~TimezoneInvalid(params.timezone, AvailableTimeZones)
                /\ TimezoneConfigClass \in VimTypes
                /\ calls' = calls \o
                     <<Call("QueryAvailableTimeZones", <<>>),
                       Call("UpdateDateTimeConfig",
                            <<[timeZone |-> params.timezone]>>)>>
                /\ \E o \in Outcomes :
                     IF o = "ok"
                     THEN /\ dateTimeInfo' =
                               [dateTimeInfo EXCEPT !.timeZone = params.timezone]
                          /\ changed' = TRUE
                          /\ pc' = "exit_json"
                          /\ UNCHANGED reports
                     ELSE /\ FailJson(<<o>>)
                          /\ UNCHANGED <<dateTimeInfo, changed>>
     \/ /\ \E f \in Faults : FailJson(<<f>>)
        /\ UNCHANGED <<dateTimeInfo, changed, calls>>
  /\ UNCHANGED <<runVars, services, advancedOption, inventory, host, host_system,
                 option, service, options, types, result>>

NextDatetime ==
  \/ DatetimeMain
  \/ ConfigureNtpServers
  \/ ConfigureNtpdFind
  \/ ConfigureNtpdState
  \/ ConfigureTimezone


(***************************************************************************)
(* vmware_advanced_setting.py                                              *)
(***************************************************************************)
\* re.sub(r'^/(.*)', r"\1", option): the pattern matches only at the start of
\* the string and only when the string starts with '/'; the match is replaced
\* by what follows the slash.
StripLeadingSlash(s) == IF Len(s) > 0 /\ s[1] = "/" THEN Tail(s) ELSE s

\* .replace('/', '.')
ReplaceSlashes(s) == [i \in 1..Len(s) |-> IF s[i] = "/" THEN "." ELSE s[i]]

\* Variant: the leading slash is replaced like the others.
NormalizeOptionNoStrip(path) == ReplaceSlashes(path)

\* option = re.sub(r'^/(.*)', r"\1", option).replace('/', '.')
NormalizeOption(path) == ReplaceSlashes(StripLeadingSlash(path))

\* main(), up to the check of HAS_PYVMOMI.
SettingMain ==
  /\ pc = "main"
  /\ prog = "vmware_advanced_setting"
  /\ option' = NormalizeOption(params.option)
  /\ pc' = "pyvmomi"
  /\ UNCHANGED <<runVars, hostVars, host, host_system, service, options, changed,
                 types, result, calls, reports>>

IsPrefix(a, b) == Len(a) <= Len(b) /\ \A i \in 1..Len(a) : a[i] = b[i]

\* The keys QueryOptions(name) of the host's option manager returns: the
\* option of that name, or every option below a name ending in a dot.
HostQueryKeys(store, name) ==
  {k \in DOMAIN store :
     \/ k = name
     \/ Len(name) > 0 /\ name[Len(name)] = "." /\ IsPrefix(name, k)}

\* options = host_option_manager.QueryOptions(option); a name the host does
\* not know raises the method fault InvalidName.
ApplySettingQuery ==
  /\ pc = "query_options"
  /\ calls' = Append(calls, Call("QueryOptions", <<option>>))
  /\ \/ /\ HostQueryKeys(advancedOption, option) # {}
        /\ LET k == CHOOSE k \in HostQueryKeys(advancedOption, option) : TRUE IN
             options' = <<[key |-> k, value |-> advancedOption[k]]>>
        /\ changed' = FALSE
        /\ pc' = "apply_setting"
        /\ UNCHANGED reports
     \/ /\ HostQueryKeys(advancedOption, option) = {}
        /\ FailJson(<<"MethodFault">>)
        /\ UNCHANGED <<options, changed>>
     \/ /\ \E f \in Faults : FailJson(<<f>>)
        /\ UNCHANGED <<options, changed>>
  /\ UNCHANGED <<runVars, hostVars, host, host_system, option, service, types,
                 result>>

\* Python 2 long(str), for strings without blanks: an optional sign followed
\* by one or more decimal digits; anything else raises ValueError.
Digits == <<"0", "1", "2", "3", "4", "5", "6", "7", "8", "9">>

DigitValue(c) == (CHOOSE i \in DOMAIN Digits : Digits[i] = c) - 1

Unsigned(s) == IF Len(s) > 0 /\ s[1] \in {"-", "+"} THEN Tail(s) ELSE s

LongParses(s) ==
  /\ Len(Unsigned(s)) > 0
  /\ \A i \in DOMAIN Unsigned(s) : Unsigned(s)[i] \in Range(Digits)

RECURSIVE DecimalValue(_)
DecimalValue(s) ==
  IF Len(s) = 0 THEN 0
  ELSE 10 * DecimalValue(SubSeq(s, 1, Len(s) - 1)) + DigitValue(s[Len(s)])

Long(s) ==
  IF Len(s) > 0 /\ s[1] = "-" THEN 0 - DecimalValue(Unsigned(s))
  ELSE DecimalValue(Unsigned(s))

\* Variant: an int is taken for a long.
ValueTypeIntAsLong(opt) ==
  IF opt.value.type = "int" THEN "long" ELSE opt.value.type

\* value_type = type(options[0].value).__name__
ValueType(opt) == opt.value.type

HandledTypes == {"long", "str", "bool"}

\* Whether evaluating the branch of value_type raises ValueError: long(value)
\* on a string that is no integer.
CoercionRaises(value_type, value) == value_type = "long" /\ ~LongParses(value)

\* The comparisons "options[0].value != ..." of the three branches.  value is
\* always a str (argument type 'str'), and in Python a bool never equals a
\* str, so the comparison of the 'bool' branch is always true.
SettingDiffers(value_type, current, value) ==
  CASE value_type = "long" -> current.value # Long(value)
    [] value_type = "str" -> current.value # value
    [] value_type = "bool" -> TRUE

\* Variant: the supplied string is submitted as it is.
CoerceKeepsString(value_type, value) == [type |-> "str", value |-> value]

\* VmomiSupport.vmodlTypes[...](value): long(value), str(value), bool(value);
\* bool of a str is true unless the str is empty.
Coerce(value_type, value) ==
  CASE value_type = "long" -> [type |-> "long", value |-> Long(value)]
    [] value_type = "str" -> [type |-> "str", value |-> value]
    [] value_type = "bool" -> [type |-> "bool", value |-> (value # <<>>)]

\* apply_setting after QueryOptions, and the return.
ApplySettingUpdate ==
  /\ pc = "apply_setting"
  /\ LET value_type == ValueType(options[1])
         value == params.value
     IN
       IF value_type \notin HandledTypes
       THEN /\ FailJson(<<"Unhandled value type", value_type>>)
            /\ UNCHANGED <<advancedOption, options, changed, calls>>
       ELSE IF CoercionRaises(value_type, value)
       THEN /\ FailJson(<<"ValueError">>)
            /\ UNCHANGED <<advancedOption, options, changed, calls>>
       ELSE IF ~SettingDiffers(value_type, options[1].value, value)
       THEN /\ pc' = "exit_json"
            /\ UNCHANGED <<advancedOption, options, changed, calls, reports>>
       ELSE /\ options' =
                 [options EXCEPT ![1].value = Coerce(value_type, value)]
            /\ calls' = Append(calls, Call("UpdateOptions", options'))
            /\ \E o \in Outcomes :
                 IF o = "ok"
                 THEN /\ advancedOption' =
                           [advancedOption EXCEPT
                              ![options[1].key] = options'[1].value]
                      /\ changed' = TRUE
                      /\ pc' = "exit_json"
                      /\ UNCHANGED reports
                 ELSE /\ FailJson(<<o>>)
                      /\ UNCHANGED <<advancedOption, changed>>
  /\ UNCHANGED <<runVars, services, dateTimeInfo, inventory, host, host_system,
                 option, service, types, result>>

NextSetting ==
  \/ SettingMain
  \/ ApplySettingQuery
  \/ ApplySettingUpdate


(***************************************************************************)
(* vmware_esxi_facts.py                                                    *)
(***************************************************************************)
\* bytes_to_human of ansible.module_utils.basic, kept opaque.
BytesToHuman(n) == <<"bytes_to_human", n>>

\* Read-only blocks of the host that are the same on every modelled host:
\* attribute a of block b has the opaque value <<b, a>>.  The host has no
\* port group, switch, host bus adapter, LUN or multipath entry.
HostBlock(b, attrs) == [a \in Range(attrs) |-> <<b, a>>]

SystemAttrs ==
  <<"name", "fullName", "vendor", "version", "build", "localeVersion",
    "localeBuild", "osType", "productLineId", "apiType", "apiVersion",
    "instanceUuid", "licenseProductName", "licenseProductVersion">>

HardwareAttrs ==
  <<"vendor", "model", "uuid", "cpuModel", "cpuMhz", "numCpuPkgs",
    "numCpuCores", "numCpuThreads", "numNics", "numHBAs">>

HostDatastores ==
  <<[name |-> "datastore1", url |-> "ds:///vmfs", containerId |-> "c1",
     timestamp |-> "t", freeSpace |-> 2048, maxFileSize |-> 4096,
     maxVirtualDiskCapacity |-> 8192]>>

\* get_system_facts
GetSystemFacts ==
  LET product_info == HostBlock("product", SystemAttrs) IN
    [attr \in Range(SystemAttrs) |-> product_info[attr]]

\* get_hardware_facts
GetHardwareFacts ==
  LET hardware == HostBlock("hardware", HardwareAttrs) IN
    [attr \in {"total_memory"} |-> BytesToHuman(16384)]
      @@ [attr \in Range(HardwareAttrs) |-> hardware[attr]]

\* get_datastore_facts
GetDatastoreFacts ==
  [n \in {HostDatastores[i].name : i \in DOMAIN HostDatastores} |->
     LET info == CHOOSE d \in Range(HostDatastores) : d.name = n IN
       [url |-> info.url, containerId |-> info.containerId,
        timestamp |-> info.timestamp,
        freeSpace |-> BytesToHuman(info.freeSpace),
        maxFileSize |-> BytesToHuman(info.maxFileSize),
        maxVirtualDiskCapacity |-> BytesToHuman(info.maxVirtualDiskCapacity)]]

\* One pass of "for nic in network_info.pnic": the entry, then the try block
\* whose first statement raises AttributeError when linkSpeed is None; the
\* except clause passes.
PnicEntry(nic) ==
  LET entry == [driver |-> nic.driver, mac |-> nic.mac, pci |-> nic.pci] IN
    IF nic.linkSpeed = <<>>
    THEN entry
    ELSE [speed |-> nic.linkSpeed[1].speedMb,
          fullduplex |-> nic.linkSpeed[1].duplex] @@ entry

\* facts['pnics'] after the loop over nics[i..]; a later nic of the same
\* device replaces the earlier entry.
RECURSIVE PnicsFacts(_, _, _)
PnicsFacts(nics, i, facts) ==
  IF i > Len(nics) THEN facts
  ELSE PnicsFacts(nics, i + 1,
                  (nics[i].device :> PnicEntry(nics[i])) @@ facts)

\* One pass of "for nic in network_info.vnic": building the ipv6 dict raises
\* AttributeError when ipV6Config is None and IndexError when its address
\* list is empty, before the key 'ipv6' is assigned; the except clause passes.
VnicEntry(nic) ==
  LET ip == nic.spec.ip
      entry == [portgroup |-> nic.portgroup, mac |-> nic.spec.mac,
                mtu |-> nic.spec.mtu,
                ipv4 |-> [address |-> ip.ipAddress, netmask |-> ip.subnetMask,
                          dhcp |-> ip.dhcp]]
  IN
    IF ip.ipV6Config = <<>> \/ ip.ipV6Config[1].ipV6Address = <<>>
    THEN entry
    ELSE [ipv6 |->
            [address |-> ip.ipV6Config[1].ipV6Address[1].ipAddress,
             prefix |-> ip.ipV6Config[1].ipV6Address[1].prefixLength,
             autoconf |-> ip.ipV6Config[1].autoConfigurationEnabled,
             dhcp |-> ip.ipV6Config[1].dhcpV6Enabled]] @@ entry

\* Variant: the missing IPv6 configuration ends the loop over the NICs.
RECURSIVE VnicsFactsAbort(_, _, _)
VnicsFactsAbort(nics, i, facts) ==
  IF i > Len(nics) THEN facts
  ELSE IF "ipv6" \notin DOMAIN VnicEntry(nics[i])
  THEN (nics[i].device :> VnicEntry(nics[i])) @@ facts
  ELSE VnicsFactsAbort(nics, i + 1,
                       (nics[i].device :> VnicEntry(nics[i])) @@ facts)

RECURSIVE VnicsFacts(_, _, _)
VnicsFacts(nics, i, facts) ==
  IF i > Len(nics) THEN facts
  ELSE VnicsFacts(nics, i + 1,
                  (nics[i].device :> VnicEntry(nics[i])) @@ facts)

\* get_network_facts
GetNetworkFacts(network_info) ==
  [pnics |-> PnicsFacts(network_info.pnic, 1, <<>>),
   vnics |-> VnicsFacts(network_info.vnic, 1, <<>>),
   portgroups |-> <<>>,
   vswitch |-> <<>>,
   proxySwitch |-> <<>>]

\* Variant: every entry carries the inaccessibility reason.
MountEntryAlwaysReason(m) ==
  [capacity |-> BytesToHuman(m.volume.capacity),
   type |-> m.volume.type,
   vStorageSupport |-> m.vStorageSupport,
   path |-> m.mountInfo.path,
   accessMode |-> m.mountInfo.accessMode,
   mounted |-> m.mountInfo.mounted,
   accessible |-> m.mountInfo.accessible,
   inaccessibleReason |-> m.mountInfo.inaccessibleReason]

\* One pass of "for m in filesystem_volume_info.mountInfo".
MountEntry(m) ==
  LET entry == [capacity |-> BytesToHuman(m.volume.capacity),
                type |-> m.volume.type,
                vStorageSupport |-> m.vStorageSupport,
                path |-> m.mountInfo.path,
                accessMode |-> m.mountInfo.accessMode,
                mounted |-> m.mountInfo.mounted,
                accessible |-> m.mountInfo.accessible]
  IN
    IF ~m.mountInfo.accessible
    THEN [inaccessibleReason |-> m.mountInfo.inaccessibleReason] @@ entry
    ELSE entry

RECURSIVE MountFacts(_, _, _)
MountFacts(mounts, i, facts) ==
  IF i > Len(mounts) THEN facts
  ELSE MountFacts(mounts, i + 1,
                  (mounts[i].volume.name :> MountEntry(mounts[i])) @@ facts)

\* get_storage_facts
GetStorageFacts(mounts) ==
  [hba |-> <<>>, lun |-> <<>>, multipath |-> <<>>, systemfile |-> <<>>,
   volumeTypeList |-> <<"VMFS">>,
   mountinfo |-> MountFacts(mounts, 1, <<>>)]

\* The extraction routines EsxiFacts defines: get_<type>_facts.
FactRoutines == {"system", "datastore", "hardware", "network", "storage"}

\* eval('self.get_{}_facts'.format(type))()
CallRoutine(type, inv) ==
  CASE type = "system" -> GetSystemFacts
    [] type = "datastore" -> GetDatastoreFacts
    [] type = "hardware" -> GetHardwareFacts
    [] type = "network" -> GetNetworkFacts(inv)
    [] type = "storage" -> GetStorageFacts(inv.mountInfo)

\* get_facts: "for type in self.types: self.facts[type] = ...".
RECURSIVE GetFactsLoop(_, _, _, _)
GetFactsLoop(tps, i, facts, inv) ==
  IF i > Len(tps) THEN facts
  ELSE GetFactsLoop(tps, i + 1, (tps[i] :> CallRoutine(tps[i], inv)) @@ facts,
                    inv)

\* Variant: the wildcard also drops the category 'system'.
SelectTypesDropsSystem(selection) ==
  IF selection = "all"
  THEN SelectSeq(SUPPORTED_TYPES, LAMBDA e : e \notin {"all", "system"})
  ELSE <<selection>>

\* The types main() hands to EsxiFacts.
SelectTypes(selection) ==
  IF selection = "all"
  THEN SelectSeq(SUPPORTED_TYPES, LAMBDA e : e # "all")
  ELSE <<selection>>

\* Variant: the result starts with changed=True.
FactsMainChanged ==
  /\ pc = "main"
  /\ prog = "vmware_esxi_facts"
  /\ types' = SelectTypes(params.types)
  /\ result' = [changed |-> TRUE, esxi_facts |-> <<>>]
  /\ pc' = "pyvmomi"
  /\ UNCHANGED <<runVars, hostVars, host, host_system, option, service, options,
                 changed, calls, reports>>

\* main(), up to the check of HAS_PYVMOMI.
FactsMain ==
  /\ pc = "main"
  /\ prog = "vmware_esxi_facts"
  /\ types' = SelectTypes(params.types)
  /\ result' = [changed |-> FALSE, esxi_facts |-> <<>>]
  /\ pc' = "pyvmomi"
  /\ UNCHANGED <<runVars, hostVars, host, host_system, option, service, options,
                 changed, calls, reports>>

\* esxi_facts = EsxiFacts(module, types, host_system); the result of
\* get_facts() is stored.  A type without a routine raises AttributeError in
\* eval; reading the host may raise a fault.
GetFacts ==
  /\ pc = "get_facts"
  /\ \/ IF \E i \in DOMAIN types : types[i] \notin FactRoutines
        THEN FailJson(<<"AttributeError">>) /\ UNCHANGED result
        ELSE /\ result' =
                  [result EXCEPT
                     !.esxi_facts = GetFactsLoop(types, 1, <<>>, inventory)]
             /\ pc' = "facts_exit"
             /\ UNCHANGED reports
     \/ \E f \in Faults : FailJson(<<f>>) /\ UNCHANGED result
  /\ UNCHANGED <<runVars, hostVars, host, host_system, option, service, options,
                 changed, types, calls>>

\* module.exit_json(**result)
FactsExit ==
  /\ pc = "facts_exit"
  /\ reports' = Append(reports, ExitReport(result.changed, result.esxi_facts))
  /\ pc' = "done"
  /\ UNCHANGED <<runVars, hostVars, localVars, calls>>

NextFacts ==
  \/ FactsMain
  \/ GetFacts
  \/ FactsExit

(***************************************************************************)
(* The specification.                                                      *)
(***************************************************************************)
NextShared ==
  \/ CheckPyvmomi
  \/ ConnectToApi
  \/ GetAllObjs
  \/ ExitJson
  \/ Reinvoke

Next ==
  \/ NextShared
  \/ NextService
  \/ NextDatetime
  \/ NextSetting
  \/ NextFacts

Spec == Init /\ [][Next]_vars


(***************************************************************************)
(* Vocabulary of the properties.                                           *)
(***************************************************************************)
\* Number of calls of this invocation whose operation is in ops.
NumCalls(ops) == Count(calls, LAMBDA c : c.op \in ops)

RunStateOps == {"StartService", "StopService", "RestartService"}

\* The invocation has ended with a success report / a failure report.
Succeeded == pc = "done" /\ reports # <<>> /\ reports[1].kind = "exit_json"

Failed == pc = "done" /\ reports # <<>> /\ reports[1].kind = "fail_json"

MutatingProgs ==
  {"vmware_service", "vmware_datetime_config", "vmware_advanced_setting"}

(***************************************************************************)
(* C1.  Idempotence of the three reconcilers: when the same module is run  *)
(* twice in a row with the same desired state and nothing else changes the *)
(* host, and both runs end in a success report, the second run reports     *)
(* changed=false.  (Stated for the runs that report a verdict at all.)     *)
(***************************************************************************)
C1_SecondRunUnchanged ==
  (/\ prog \in MutatingProgs
   /\ run >= 2
   /\ prev \in {"changed", "unchanged"}
   /\ Succeeded)
    => ~reports[1].changed


(***************************************************************************)
(* C2.  manage_service, for an existing service, once the run-state step   *)
(* is over: desired 'stopped' with observed running=true has issued        *)
(* exactly one StopService and no start or restart; desired 'running' with *)
(* observed running=true has issued no start/stop/restart; desired         *)
(* 'restarted' has issued exactly one RestartService whatever the observed *)
(* running flag; never more than one of start/stop/restart is issued.  The *)
(* success report carries changed=true in the first and third case and     *)
(* changed=false in the second when the policy already matches.            *)
(***************************************************************************)
C2_ServiceThreeWay ==
  prog = "vmware_service" =>
    /\ NumCalls(RunStateOps) <= 1
    /\ (pc \in {"service_policy", "exit_json", "done"} /\ service # NoService) =>
         /\ (params.state = "stopped" /\ service.running) =>
              /\ NumCalls({"StopService"}) = 1
              /\ NumCalls(RunStateOps) = 1
              /\ (Succeeded => reports[1].changed)
         /\ (params.state = "running" /\ service.running) =>
              /\ NumCalls(RunStateOps) = 0
              /\ (Succeeded /\ params.policy = service.policy)
                   => (~reports[1].changed /\ calls = <<>>)
         /\ params.state = "restarted" =>
              /\ NumCalls({"RestartService"}) = 1
              /\ NumCalls(RunStateOps) = 1
              /\ (Succeeded => reports[1].changed)

\* A stopped service was restarted: one RestartService, changed=true.
C2_Witness ==
  /\ prog = "vmware_service"
  /\ Succeeded
  /\ params.state = "restarted"
  /\ ~service.running
  /\ NumCalls({"RestartService"}) = 1
  /\ reports[1].changed

(***************************************************************************)
(* C3.  configure_datetime with a requested timezone that is not in the    *)
(* host's list of valid timezones.                                         *)
(***************************************************************************)
InvalidTimezoneRequested ==
  /\ prog = "vmware_datetime_config"
  /\ params.timezone # ""
  /\ params.timezone \notin AvailableTimeZones

C4_Step ==
  (/\ prog = "vmware_advanced_setting"
   /\ pc = "apply_setting"
   /\ options[1].value.type = "long"
   /\ LongParses(params.value))
    => LET n == options[1].value.value
           m == Long(params.value)
           submitted == [key |-> options[1].key,
                         value |-> [type |-> "long", value |-> m]]
       IN
         /\ (params.value = <<"5">> => m = 5) /\ (params.value = <<"6">> => m = 6)
         /\ m = n => /\ calls' = calls
                     /\ pc' = "exit_json"
                     /\ ~changed'
         /\ m # n => /\ calls' = Append(calls, Call("UpdateOptions", <<submitted>>))
                     /\ \/ pc' = "exit_json" /\ changed'
                           /\ advancedOption'[options[1].key] = submitted.value
                        \/ pc' = "done" /\ reports'[1].kind = "fail_json"

C4_Report ==
  (prog = "vmware_advanced_setting" /\ pc = "exit_json")
    => (pc' = "done" /\ reports' = <<ExitReport(changed, <<>>)>>
          /\ calls' = calls)

C4_IntegerCoercion == [][C4_Step /\ C4_Report]_vars

\* Observed 5, supplied "6": one UpdateOptions with the integer 6, changed=true.
C4_Witness ==
  /\ prog = "vmware_advanced_setting"
  /\ run = 1
  /\ Succeeded
  /\ params.value = <<"6">>
  /\ calls[Len(calls)] =
       Call("UpdateOptions",
            <<[key |-> OptionKey, value |-> [type |-> "long", value |-> 6]]>>)
  /\ NumCalls({"UpdateOptions"}) = 1
  /\ reports[1].changed

(***************************************************************************)
(* C5.  Option-path normalization: the key main() passes on is the given   *)
(* path without its one leading '/' (if any) and with every other '/'      *)
(* replaced by '.'; it is the key of every QueryOptions call; so           *)
(* /U/S and U.S give the same key, and a path without '/' is unchanged.    *)
(***************************************************************************)
C5_Normalization ==
  (prog = "vmware_advanced_setting" /\ pc # "main") =>
    LET path == params.option
        off == IF Len(path) > 0 /\ path[1] = "/" THEN 1 ELSE 0
    IN
      /\ Len(option) = Len(path) - off
      /\ \A i \in 1..Len(option) :
           option[i] = IF path[i + off] = "/" THEN "." ELSE path[i + off]
      /\ (\A i \in DOMAIN path : path[i] # "/") => option = path
      /\ path \in {<<"/", "U", "/", "S">>, <<"U", ".", "S">>}
           => option = <<"U", ".", "S">>
      /\ \A i \in DOMAIN calls :
           calls[i].op = "QueryOptions" => calls[i].arg = <<option>>

\* The esxcli-style path /U/S reached QueryOptions as U.S.
C5_Witness ==
  /\ prog = "vmware_advanced_setting"
  /\ params.option = <<"/", "U", "/", "S">>
  /\ calls # <<>>
  /\ calls[1] = Call("QueryOptions", <<<<"U", ".", "S">>>>)


(***************************************************************************)
(* C6.  get_network_facts: every physical and every virtual NIC of the     *)
(* host has one entry, whatever NICs lack link speed or IPv6; a virtual    *)
(* NIC without IPv6 has portgroup, mac, mtu and ipv4 and no key 'ipv6'; a  *)
(* physical NIC without link speed has driver, mac and pci and no key      *)
(* 'speed' or 'fullduplex'; the entry of every complete NIC is what it is  *)
(* on the host where the deficient NICs are complete.                      *)
(***************************************************************************)
HasLinkSpeed(nic) == nic.linkSpeed # <<>>

HasIPv6(nic) ==
  /\ nic.spec.ip.ipV6Config # <<>>
  /\ nic.spec.ip.ipV6Config[1].ipV6Address # <<>>

\* The host with every NIC given its optional sub-structure.
Completed(inv) ==
  [inv EXCEPT
     !.pnic = [i \in DOMAIN inv.pnic |->
                 PnicOf(inv.pnic[i].device, <<[speedMb |-> 1000, duplex |-> TRUE]>>)],
     !.vnic = [i \in DOMAIN inv.vnic |->
                 IF HasIPv6(inv.vnic[i]) THEN inv.vnic[i]
                 ELSE VnicOf(inv.vnic[i].device,
                             <<[ipV6Address |-> <<V6Address>>,
                                autoConfigurationEnabled |-> TRUE,
                                dhcpV6Enabled |-> FALSE]>>)]]

C6_NicIsolation ==
  (prog = "vmware_esxi_facts" /\ "network" \in DOMAIN result.esxi_facts) =>
    LET net == result.esxi_facts["network"]
        P == inventory.pnic
        V == inventory.vnic
        full == GetNetworkFacts(Completed(inventory))
    IN
      /\ DOMAIN net.pnics = {P[i].device : i \in DOMAIN P}
      /\ DOMAIN net.vnics = {V[i].device : i \in DOMAIN V}
      /\ \A i \in DOMAIN P :
           LET e == net.pnics[P[i].device] IN
             /\ DOMAIN e = {"driver", "mac", "pci"}
                  \cup (IF HasLinkSpeed(P[i]) THEN {"speed", "fullduplex"} ELSE {})
             /\ e.driver = P[i].driver /\ e.mac = P[i].mac /\ e.pci = P[i].pci
             /\ HasLinkSpeed(P[i]) => e = full.pnics[P[i].device]
      /\ \A i \in DOMAIN V :
           LET e == net.vnics[V[i].device] IN
             /\ DOMAIN e = {"portgroup", "mac", "mtu", "ipv4"}
                  \cup (IF HasIPv6(V[i]) THEN {"ipv6"} ELSE {})
             /\ e.portgroup = V[i].portgroup
             /\ e.mac = V[i].spec.mac /\ e.mtu = V[i].spec.mtu
             /\ e.ipv4 = [address |-> V[i].spec.ip.ipAddress,
                          netmask |-> V[i].spec.ip.subnetMask,
                          dhcp |-> V[i].spec.ip.dhcp]
             /\ HasIPv6(V[i]) => e = full.vnics[V[i].device]
      /\ Succeeded => reports[1].facts["network"] = net

\* A virtual NIC without IPv6 in front of one with IPv6, and a physical NIC
\* without link speed, all reported.
C6_Witness ==
  /\ prog = "vmware_esxi_facts"
  /\ Succeeded
  /\ "network" \in DOMAIN reports[1].facts
  /\ Len(inventory.vnic) = 2
  /\ ~HasIPv6(inventory.vnic[1])
  /\ HasIPv6(inventory.vnic[2])
  /\ Len(inventory.pnic) >= 1
  /\ ~HasLinkSpeed(inventory.pnic[1])
  /\ "ipv6" \notin DOMAIN reports[1].facts["network"].vnics[1]
  /\ "ipv6" \in DOMAIN reports[1].facts["network"].vnics[2]

(***************************************************************************)
(* C7.  Every invocation of every main() emits exactly one terminal        *)
(* report: never more than one report exists; the invocation is over       *)
(* exactly when its report exists; before the report main() can always     *)
(* take a step (it does not stop without a report); once the report is     *)
(* out no step of this invocation, so no remote call, is possible; the     *)
(* report is a success report with a changed verdict or a failure report   *)
(* with a message.                                                         *)
(***************************************************************************)
C7_ExactlyOneReport ==
  /\ Len(reports) <= 1
  /\ pc = "done" <=> Len(reports) = 1
  /\ pc # "done" => ENABLED Next
  /\ reports # <<>> => ~ENABLED (Next /\ run' = run)
  /\ reports # <<>> =>
       \/ reports[1].kind = "exit_json" /\ reports[1].changed \in BOOLEAN
       \/ reports[1].kind = "fail_json" /\ reports[1].msg # <<>>

\* An unanticipated exception (IndexError: the host has no ntpd service)
\* ended in one failure report, after a remote call had been issued.
C7_Witness ==
  /\ prog = "vmware_datetime_config"
  /\ pc = "done"
  /\ reports = <<FailReport(<<"list index out of range">>)>>
  /\ NumCalls({"UpdateDateTimeConfig"}) = 1

(***************************************************************************)
(* C8.  manage_service when the host has no service of the given name:     *)
(* the invocation never gets past the lookup, it ends in a failure report  *)
(* and no StartService, StopService, RestartService or                     *)
(* UpdateServicePolicy call is issued, for every desired state and policy. *)
(***************************************************************************)
C8_ServiceNotFound ==
  (prog = "vmware_service" /\ params.name \notin DOMAIN services) =>
    /\ NumCalls(MutationOps) = 0
    /\ pc \notin {"service_state", "service_policy", "exit_json"}
    /\ pc = "done" => Failed

\* 'restarted' was asked for a service the host does not have.
C8_Witness ==
  /\ prog = "vmware_service"
  /\ params.name \notin DOMAIN services
  /\ params.state = "restarted"
  /\ Failed
  /\ reports[1].msg = <<"Could not find service to manage", params.name>>

(***************************************************************************)
(* C9.  apply_setting on an option whose observed value is neither a long, *)
(* a str nor a bool: the invocation ends in a failure report whose message *)
(* carries the type name, no UpdateOptions call is issued and the host's   *)
(* option keeps its value.                                                 *)
(***************************************************************************)
C9_UnhandledType ==
  (/\ prog = "vmware_advanced_setting"
   /\ options # <<>>
   /\ options[1].value.type \notin {"long", "str", "bool"})
    => /\ NumCalls({"UpdateOptions"}) = 0
       /\ advancedOption[options[1].key] = options[1].value
       /\ pc \in {"apply_setting", "done"}
       /\ pc = "done" =>
            /\ Failed
            /\ reports[1].msg = <<"Unhandled value type", options[1].value.type>>

\* The option is an int: the failure report names the type.
C9_Witness ==
  /\ prog = "vmware_advanced_setting"
  /\ Failed
  /\ reports[1].msg = <<"Unhandled value type", "int">>
  /\ advancedOption[OptionKey] = [type |-> "int", value |-> 5]

(***************************************************************************)
(* C10.  The fact document of a success report has exactly the requested   *)
(* categories as keys: the five categories for 'all' (never 'all'), the    *)
(* one category otherwise; each value is what that category's routine      *)
(* extracts; and no selection fails for want of a routine.                 *)
(***************************************************************************)
C10_FactKeys ==
  prog = "vmware_esxi_facts" =>
    /\ Succeeded =>
         LET facts == reports[1].facts IN
           /\ DOMAIN facts =
                IF params.types = "all"
                THEN {"system", "hardware", "network", "storage", "datastore"}
                ELSE {params.types}
           /\ "all" \notin DOMAIN facts
           /\ "system" \in DOMAIN facts => facts["system"] = GetSystemFacts
           /\ "hardware" \in DOMAIN facts => facts["hardware"] = GetHardwareFacts
           /\ "datastore" \in DOMAIN facts => facts["datastore"] = GetDatastoreFacts
           /\ "network" \in DOMAIN facts
                => facts["network"] = GetNetworkFacts(inventory)
           /\ "storage" \in DOMAIN facts
                => facts["storage"] = GetStorageFacts(inventory.mountInfo)
    /\ Failed => reports[1].msg # <<"AttributeError">>

\* 'all' was requested and five categories were reported.
C10_Witness ==
  /\ prog = "vmware_esxi_facts"
  /\ params.types = "all"
  /\ Succeeded
  /\ Cardinality(DOMAIN reports[1].facts) = 5

(***************************************************************************)
(* C11.  In every module the host lookup decides whether the reconciler   *)
(* (or the fact aggregator) runs: an empty mapping ends the invocation in  *)
(* a failure report with no remote call issued and no reconciler step      *)
(* taken; a non-empty mapping hands its first entry to the reconciler,     *)
(* which is entered exactly once in the invocation.                        *)
(***************************************************************************)
\* The positions inside manage_service, configure_datetime, apply_setting
\* and EsxiFacts.get_facts, and those after their return.
ReconcilerPcs ==
  {"manage_service", "service_state", "service_policy", "ntp_servers",
   "ntpd_service", "ntpd_state", "timezone", "query_options",
   "apply_setting", "get_facts"}

ReturnedPcs == {"exit_json", "facts_exit"}

\* The reconciler has not run: its locals are as main created them.
ReconcilerUntouched ==
  /\ calls = <<>>
  /\ service = NoService
  /\ options = <<>>
  /\ changed = FALSE
  /\ result.esxi_facts = <<>>

C11_State ==
  /\ pc \in ReconcilerPcs \cup ReturnedPcs
       => host # <<>> /\ host_system = host[1]
  /\ (pc = "done" /\ host = <<>>) => Failed /\ ReconcilerUntouched
  /\ Succeeded => host # <<>> /\ host_system = host[1]

C11_Step ==
  /\ pc = "lookup" =>
       \/ /\ host' = <<>>
          /\ pc' = "done"
          /\ reports' # <<>>
          /\ reports'[1].kind = "fail_json"
          /\ calls' = <<>>
       \/ /\ host' # <<>>
          /\ host_system' = host'[1]
          /\ pc' = AfterLookup
          /\ reports' = <<>>
  /\ pc' \in ReconcilerPcs => pc \in {"lookup"} \cup ReconcilerPcs
  /\ pc' = AfterLookup => pc = "lookup"
  /\ pc' = "lookup" => pc = "connect"
  /\ pc' = "connect" => pc = "pyvmomi"
  /\ pc' = "pyvmomi" => pc = "main"
  /\ pc' = "main" => pc = "done" /\ run' = run + 1

C11_HostLookup == C11_State /\ [][C11_State' /\ C11_Step]_vars

\* The first invocation found two hosts and its reconciler changed the
\* first; the second invocation found none and failed without a call.
C11_Witness ==
  /\ run = 2
  /\ prev = "changed"
  /\ Failed
  /\ reports[1].msg = <<"Unable to locate Physical Host.">>
  /\ host = <<>>
  /\ calls = <<>>

\* A successful invocation whose lookup returned two hosts.
C11_WitnessFirstEntry ==
  /\ Succeeded
  /\ host = <<"esx1", "esx2">>
  /\ host_system = "esx1"
  /\ calls # <<>>

(***************************************************************************)
(* C12.  apply_setting on an option whose observed value is a boolean:     *)
(* when the supplied value denotes the same boolean no UpdateOptions is     *)
(* issued and changed stays false; when it denotes the other boolean       *)
(* exactly one UpdateOptions is issued, submitting that boolean, and        *)
(* changed becomes true when the call returns.  The boolean a supplied     *)
(* string denotes is taken as the code's own coercion gives it.            *)
(***************************************************************************)
C12_Step ==
  (/\ prog = "vmware_advanced_setting"
   /\ pc = "apply_setting"
   /\ options[1].value.type = "bool")
    => LET observed == options[1].value.value
           denoted == Coerce("bool", params.value)
           submitted == [key |-> options[1].key, value |-> denoted]
       IN
         /\ denoted.value = observed
              => /\ calls' = calls
                 /\ pc' = "exit_json"
                 /\ ~changed'
         /\ denoted.value # observed
              => /\ calls' = Append(calls, Call("UpdateOptions", <<submitted>>))
                 /\ \/ pc' = "exit_json" /\ changed'
                       /\ advancedOption'[options[1].key] = denoted
                    \/ pc' = "done" /\ reports'[1].kind = "fail_json"

C12_BooleanCompare == [][C12_Step]_vars

(***************************************************************************)
(* C13.  configure_datetime with a requested timezone that differs from    *)
(* the observed one and is in the host's list of valid timezones: unless   *)
(* the host raises a fault, the timezone step submits exactly one          *)
(* date-time configuration, holding the timezone only, changed becomes     *)
(* true and the host's timezone is the requested one afterwards.           *)
(***************************************************************************)
FaultMessages == {<<f>> : f \in Faults}

C13_Step ==
  (/\ prog = "vmware_datetime_config"
   /\ pc = "timezone"
   /\ params.timezone # ""
   /\ params.timezone # dateTimeInfo.timeZone
   /\ params.timezone \in AvailableTimeZones)
    => \/ /\ pc' = "exit_json"
          /\ changed'
          /\ calls' = calls \o
               <<Call("QueryAvailableTimeZones", <<>>),
                 Call("UpdateDateTimeConfig", <<[timeZone |-> params.timezone]>>)>>
          /\ dateTimeInfo'.timeZone = params.timezone
       \/ /\ pc' = "done"
          /\ reports' # <<>>
          /\ reports'[1].msg \in FaultMessages

C13_TimezoneChange == [][C13_Step]_vars

(***************************************************************************)
(* C14.  manage_service issues UpdateServicePolicy exactly when the        *)
(* desired policy differs from the observed one, whatever the run-state    *)
(* branch did: both calls may be issued in one invocation, the run-state   *)
(* call first.  The reported changed is true exactly when at least one of  *)
(* start, stop, restart and update-policy was issued.  (A fault raised by  *)
(* the run-state call ends the invocation before the policy is looked at.) *)
(***************************************************************************)
ServiceOps == RunStateOps \cup {"UpdateServicePolicy"}

C14_PolicyIndependent ==
  (prog = "vmware_service" /\ service # NoService) =>
    /\ NumCalls({"UpdateServicePolicy"}) <= 1
    /\ NumCalls({"UpdateServicePolicy"}) = 1 =>
         /\ params.policy # service.policy
         /\ calls[Len(calls)] =
              Call("UpdateServicePolicy", <<params.name, params.policy>>)
    /\ (pc = "exit_json" \/ Succeeded) =>
         /\ NumCalls({"UpdateServicePolicy"}) = 1
              <=> params.policy # service.policy
         /\ NumCalls(RunStateOps) = 1
              <=> ServiceStateCall(params.state, service.running) # "none"
         /\ changed <=> NumCalls(ServiceOps) >= 1
    /\ Succeeded => (reports[1].changed <=> NumCalls(ServiceOps) >= 1)

\* Both fired: a running service was stopped, then its policy was updated.
C14_Witness ==
  /\ prog = "vmware_service"
  /\ Succeeded
  /\ reports[1].changed
  /\ Len(calls) = 2
  /\ calls[1] = Call("StopService", <<params.name>>)
  /\ calls[2] = Call("UpdateServicePolicy", <<params.name, params.policy>>)
  /\ services[params.name] = [running |-> FALSE, policy |-> params.policy]

\* Only the policy differed: one UpdateServicePolicy, no run-state call.
C14_WitnessPolicyOnly ==
  /\ prog = "vmware_service"
  /\ Succeeded
  /\ reports[1].changed
  /\ calls = <<Call("UpdateServicePolicy", <<params.name, params.policy>>)>>

(***************************************************************************)
(* C15.  manage_service when the run-state call succeeded and              *)
(* UpdateServicePolicy then raised a fault: the invocation ends in one     *)
(* failure report carrying the fault (no report with changed=true), the    *)
(* two calls are all that was issued (no compensating start or stop), the  *)
(* host keeps the running state the first call gave it and the policy it   *)
(* had.                                                                    *)
(***************************************************************************)
C15_NoRollback ==
  (/\ prog = "vmware_service"
   /\ Failed
   /\ NumCalls(RunStateOps) >= 1
   /\ NumCalls({"UpdateServicePolicy"}) >= 1)
    => /\ Len(reports) = 1
       /\ reports[1].msg \in FaultMessages
       /\ ~reports[1].changed
       /\ Len(calls) = 2
       /\ calls[1] = Call(ServiceStateCall(params.state, service.running),
                          <<params.name>>)
       /\ calls[2] = Call("UpdateServicePolicy", <<params.name, params.policy>>)
       /\ services[params.name].running = (calls[1].op # "StopService")
       /\ services[params.name].policy = service.policy
       /\ service.policy # params.policy

\* A running service was stopped, the policy update faulted: the service
\* stays stopped with its old policy.
C15_Witness ==
  /\ prog = "vmware_service"
  /\ Failed
  /\ reports[1].msg = <<"MethodFault">>
  /\ service.running
  /\ calls = <<Call("StopService", <<params.name>>),
               Call("UpdateServicePolicy", <<params.name, params.policy>>)>>
  /\ services[params.name] = [running |-> FALSE, policy |-> service.policy]

(***************************************************************************)
(* C16.  In configure_datetime an updated NTP server list never by itself  *)
(* restarts ntpd: with desired state running on a running ntpd, or stopped *)
(* on a stopped one, no StartService, StopService or RestartService is     *)
(* issued at any point of the invocation, NTP update or not; and           *)
(* RestartService is issued only when the desired state is 'restarted'.    *)
(***************************************************************************)
C16_NoRestartOnNtpChange ==
  prog = "vmware_datetime_config" =>
    /\ NumCalls(RunStateOps) <= 1
    /\ NumCalls({"RestartService"}) >= 1 => params.ntpd_state = "restarted"
    /\ service = NoService => NumCalls(RunStateOps) = 0
    /\ service # NoService =>
         /\ (params.ntpd_state = "running" /\ service.running)
              => NumCalls(RunStateOps) = 0
         /\ (params.ntpd_state = "stopped" /\ ~service.running)
              => NumCalls(RunStateOps) = 0
         /\ (NumCalls(RunStateOps) = 0 /\ pc \in {"timezone", "exit_json", "done"})
              => services["ntpd"].running = service.running

\* The NTP list was updated on a host whose ntpd runs as desired: the
\* invocation succeeds with that one call.
C16_Witness ==
  /\ prog = "vmware_datetime_config"
  /\ Succeeded
  /\ reports[1].changed
  /\ params.ntpd_state = "running"
  /\ service.running
  /\ calls = <<Call("UpdateDateTimeConfig", <<[ntpConfig |-> params.ntp_servers]>>)>>
  /\ services["ntpd"].running

(***************************************************************************)
(* C17.  configure_datetime updates the NTP servers exactly when the       *)
(* desired list differs from the observed list as a sequence (the same     *)
(* servers in another order differ).  The configuration it submits holds   *)
(* the NTP list only, no timezone; when the call returns changed is true   *)
(* and the host's list is the desired one; a success report of an          *)
(* invocation that issued the update carries changed=true.                 *)
(***************************************************************************)
NtpUpdate == Call("UpdateDateTimeConfig", <<[ntpConfig |-> params.ntp_servers]>>)

C17_Step ==
  (prog = "vmware_datetime_config" /\ pc = "ntp_servers") =>
    \/ /\ dateTimeInfo.server = params.ntp_servers
       /\ calls' = calls
       /\ pc' = "ntpd_service"
       /\ ~changed'
       /\ dateTimeInfo' = dateTimeInfo
    \/ /\ dateTimeInfo.server # params.ntp_servers
       /\ calls' = Append(calls, NtpUpdate)
       /\ DOMAIN calls'[Len(calls')].arg[1] = {"ntpConfig"}
       /\ \/ /\ pc' = "ntpd_service"
             /\ changed'
             /\ dateTimeInfo'.server = params.ntp_servers
             /\ dateTimeInfo'.timeZone = dateTimeInfo.timeZone
          \/ /\ pc' = "done"
             /\ reports'[1].msg \in FaultMessages
             /\ dateTimeInfo' = dateTimeInfo
    \/ /\ calls' = calls
       /\ pc' = "done"
       /\ reports'[1].msg \in FaultMessages
       /\ dateTimeInfo' = dateTimeInfo

C17_State ==
  prog = "vmware_datetime_config" =>
    /\ pc \in {"ntpd_service", "ntpd_state", "timezone", "exit_json"} \/ Succeeded
         => dateTimeInfo.server = params.ntp_servers
    /\ (Succeeded /\ NumCalls({"UpdateDateTimeConfig"}) >= 1)
         => (reports[1].changed /\ calls[1] = NtpUpdate)

C17_NtpUpdate == C17_State /\ [][C17_Step /\ C17_State']_vars

\* The list was updated to two servers and the invocation succeeded.
C17_Witness ==
  /\ prog = "vmware_datetime_config"
  /\ run = 1
  /\ Succeeded
  /\ reports[1].changed
  /\ params.ntp_servers = <<"ntp-002", "ntp-001">>
  /\ calls[1] = NtpUpdate
  /\ dateTimeInfo.server = <<"ntp-002", "ntp-001">>

\* The same servers in the other order: the update was issued (and, the
\* host raising a fault, left the observed list in place).
C17_WitnessOrder ==
  /\ prog = "vmware_datetime_config"
  /\ run = 1
  /\ Failed
  /\ params.ntp_servers = <<"ntp-002", "ntp-001">>
  /\ dateTimeInfo.server = <<"ntp-001", "ntp-002">>
  /\ calls = <<NtpUpdate>>

(***************************************************************************)
(* C18.  configure_datetime on a host that has no 'ntpd' service.          *)
(***************************************************************************)
NtpdAbsent == prog = "vmware_datetime_config" /\ "ntpd" \notin DOMAIN services

IndexErrorReported ==
  Failed /\ reports[1].msg = <<"list index out of range">>

\* C18 as stated: the invocation fails fast, that is, it ends in a failure
\* report and the failure for the missing service comes before any mutation
\* call, for every desired NTP list, state and timezone.
C18_FailFast ==
  NtpdAbsent =>
    /\ pc = "done" => Failed
    /\ IndexErrorReported => NumCalls(MutationOps) = 0

\* What the code does on such a host: the invocation ends in a failure
\* report; it issues no StartService, StopService or RestartService and never
\* reaches the timezone step; but the NTP step, which comes before the
\* service lookup, has been carried out: the one call of the invocation, if
\* any, is the NTP update, issued exactly when the lists differed, and at the
\* failure for the missing service the host's NTP list is the desired one.
C18_Observed ==
  NtpdAbsent =>
    /\ pc = "done" => Failed
    /\ service = NoService
    /\ pc \notin {"ntpd_state", "timezone", "exit_json"}
    /\ NumCalls(RunStateOps \cup {"QueryAvailableTimeZones"}) = 0
    /\ calls \in {<<>>, <<NtpUpdate>>}
    /\ IndexErrorReported =>
         /\ dateTimeInfo.server = params.ntp_servers
         /\ calls = <<NtpUpdate>> <=> changed
         /\ ~reports[1].changed

\* No ntpd: the NTP list was updated, then the lookup failed.
C18_ObservedWitness ==
  /\ NtpdAbsent
  /\ IndexErrorReported
  /\ calls = <<NtpUpdate>>
  /\ dateTimeInfo.server = params.ntp_servers
  /\ params.ntp_servers # <<>>

(***************************************************************************)
(* C19.  In the three mutating modules, a remote mutation call that raises *)
(* a runtime or method fault ends the invocation in one failure report     *)
(* whose message is the fault's; the call was issued once, it changed      *)
(* neither the host nor changed, and no step of the invocation follows     *)
(* the report, so no further remote call is made.  (A step that issues a   *)
(* mutation call ends the invocation exactly when the call raised.)        *)
(***************************************************************************)
\* A step of the current invocation that issues a mutation call.
MutationStep ==
  /\ run' = run
  /\ Len(calls') > Len(calls)
  /\ calls'[Len(calls')].op \in MutationOps

C19_Step ==
  prog \in MutatingProgs =>
    /\ run' = run => reports = <<>>
    /\ MutationStep =>
         /\ calls' = Append(calls, calls'[Len(calls')])
         /\ \/ /\ pc' = "done"
               /\ \E f \in Faults : reports' = <<FailReport(<<f>>)>>
               /\ hostVars' = hostVars
               /\ changed' = changed
            \/ /\ pc' # "done"
               /\ reports' = <<>>
               /\ changed'

C19_State ==
  prog \in MutatingProgs =>
    /\ \A i, j \in 1..Len(calls) :
         (i < j /\ calls[i].op \in MutationOps) => calls[i] # calls[j]
    /\ reports # <<>> => (pc = "done" /\ Len(reports) = 1)

C19_FaultEndsInvocation == C19_State /\ [][C19_Step /\ C19_State']_vars

\* The NTP update raised a fault: one failure report with its message, the
\* host's list unchanged, no later step taken.
C19_Witness ==
  /\ prog = "vmware_datetime_config"
  /\ Failed
  /\ reports = <<FailReport(<<"RuntimeFault">>)>>
  /\ calls = <<NtpUpdate>>
  /\ dateTimeInfo.server # params.ntp_servers
  /\ service = NoService
  /\ ~changed

(***************************************************************************)
(* C20.  In configure_datetime the valid-timezone check runs only on a     *)
(* mismatch: when no timezone is requested, or the requested name is the   *)
(* observed one, the timezone step does not query the host's list of valid *)
(* timezones, does not fail with the invalid-timezone error and submits no *)
(* timezone configuration; it returns, or reports a fault raised while the *)
(* observed timezone was read.                                             *)
(***************************************************************************)
TimezoneCalls ==
  Count(calls, LAMBDA c :
    \/ c.op = "QueryAvailableTimeZones"
    \/ c.op = "UpdateDateTimeConfig" /\ "timeZone" \in DOMAIN c.arg[1])

InvalidTimezoneReported ==
  Failed /\ reports[1].msg = <<"Invalid timezone requested">>

C20_Step ==
  (/\ prog = "vmware_datetime_config"
   /\ pc = "timezone"
   /\ \/ params.timezone = ""
      \/ params.timezone = dateTimeInfo.timeZone)
    => /\ calls' = calls
       /\ dateTimeInfo' = dateTimeInfo
       /\ changed' = changed
       /\ \/ pc' = "exit_json" /\ reports' = <<>>
          \/ /\ pc' = "done"
             /\ reports'[1].msg \in FaultMessages

C20_State ==
  (/\ prog = "vmware_datetime_config"
   /\ \/ params.timezone = ""
      \/ params.timezone = dateTimeInfo.timeZone)
    => /\ TimezoneCalls = 0
       /\ ~InvalidTimezoneReported

C20_WitnessNone ==
  /\ prog = "vmware_datetime_config"
  /\ Succeeded
  /\ params.timezone = ""
  /\ TimezoneCalls = 0

(***************************************************************************)
(* C21.  The 'mountinfo' part of get_storage_facts.                        *)
(***************************************************************************)
\* get_storage_facts has run on the host's mount list and its result is in
\* the fact document.
StorageCollected ==
  /\ prog = "vmware_esxi_facts"
  /\ pc \in {"facts_exit", "done"}
  /\ "storage" \in DOMAIN result.esxi_facts

Mountinfo == result.esxi_facts["storage"].mountinfo

DistinctNames(mounts) ==
  \A i, j \in DOMAIN mounts :
    mounts[i].volume.name = mounts[j].volume.name => i = j

\* The last mount of the list that carries the name n.
LastNamed(mounts, n) ==
  LET last == CHOOSE i \in DOMAIN mounts :
                /\ mounts[i].volume.name = n
                /\ \A j \in DOMAIN mounts : mounts[j].volume.name = n => j <= i
  IN mounts[last]

\* C21 as stated: for every list of mounts, one entry per mount, and the entry
\* of a mount has the key 'inaccessibleReason' exactly when that mount's
\* accessible flag is false.
C21_EntryPerMount ==
  StorageCollected =>
    LET mounts == inventory.mountInfo IN
      /\ Cardinality(DOMAIN Mountinfo) = Len(mounts)
      /\ \A i \in DOMAIN mounts :
           /\ mounts[i].volume.name \in DOMAIN Mountinfo
           /\ "inaccessibleReason" \in DOMAIN Mountinfo[mounts[i].volume.name]
                <=> ~mounts[i].mountInfo.accessible

\* C21 as amended: one entry per volume name, which is one entry per mount
\* when the names of the list are pairwise distinct; the entry of a name
\* describes the last mount of the list that carries it, and it has the key
\* 'inaccessibleReason' exactly when that mount's accessible flag is false,
\* so an entry whose accessible is true never has the key.
C21_EntryPerName ==
  StorageCollected =>
    LET mounts == inventory.mountInfo IN
      /\ DOMAIN Mountinfo = {mounts[i].volume.name : i \in DOMAIN mounts}
      /\ DistinctNames(mounts) => Cardinality(DOMAIN Mountinfo) = Len(mounts)
      /\ \A n \in DOMAIN Mountinfo :
           LET m == LastNamed(mounts, n) IN
             /\ Mountinfo[n].accessible = m.mountInfo.accessible
             /\ "inaccessibleReason" \in DOMAIN Mountinfo[n]
                  <=> ~m.mountInfo.accessible
             /\ Mountinfo[n].accessible
                  => "inaccessibleReason" \notin DOMAIN Mountinfo[n]
             /\ ~Mountinfo[n].accessible
                  => Mountinfo[n].inaccessibleReason = m.mountInfo.inaccessibleReason

\* Two mounts of different names, the first accessible, the second not: two
\* entries in the success report, the second alone with the reason.
C21_Witness ==
  /\ StorageCollected
  /\ Succeeded
  /\ inventory.mountInfo = <<MountOf(1, TRUE), MountOf(2, FALSE)>>
  /\ DOMAIN reports[1].facts["storage"].mountinfo = {1, 2}
  /\ "inaccessibleReason" \notin DOMAIN reports[1].facts["storage"].mountinfo[1]
  /\ "inaccessibleReason" \in DOMAIN reports[1].facts["storage"].mountinfo[2]

(***************************************************************************)
(* C22.  Convergence: when an invocation of a mutating module has ended in *)
(* a success report, the host is in the desired state.  manage_service:    *)
(* the service's policy is the desired one and, for desired 'running' or   *)
(* 'stopped', its running flag is the desired one.  configure_datetime:    *)
(* the NTP server list is the desired list, ntpd's running flag matches a  *)
(* desired 'running' or 'stopped', and the timezone is the requested one   *)
(* when one was requested.  apply_setting: the option's value is the       *)
(* supplied value coerced to the option's type.                            *)
(***************************************************************************)
RunningAsDesired(state, svc) ==
  /\ state = "running" => svc.running
  /\ state = "stopped" => ~svc.running

C22_Converged ==
  Succeeded =>
    /\ prog = "vmware_service" =>
         /\ services[params.name].policy = params.policy
         /\ RunningAsDesired(params.state, services[params.name])
    /\ prog = "vmware_datetime_config" =>
         /\ dateTimeInfo.server = params.ntp_servers
         /\ RunningAsDesired(params.ntpd_state, services["ntpd"])
         /\ params.timezone # "" => dateTimeInfo.timeZone = params.timezone
    /\ prog = "vmware_advanced_setting" =>
         /\ options # <<>>
         /\ advancedOption[options[1].key] =
              Coerce(ValueType(options[1]), params.value)

\* The NTP list was updated and a stopped ntpd was started: the host has the
\* desired list and ntpd runs.
C22_Witness ==
  /\ prog = "vmware_datetime_config"
  /\ Succeeded
  /\ reports[1].changed
  /\ params.ntpd_state = "running"
  /\ ~service.running
  /\ calls = <<NtpUpdate, Call("StartService", <<"ntpd">>)>>
  /\ dateTimeInfo.server = params.ntp_servers
  /\ services["ntpd"].running

\* A boolean option was set to true.
C22_WitnessSetting ==
  /\ prog = "vmware_advanced_setting"
  /\ Succeeded
  /\ reports[1].changed
  /\ advancedOption[options[1].key] = [type |-> "bool", value |-> TRUE]

\* A running service was stopped and its policy updated.
C22_WitnessService ==
  /\ prog = "vmware_service"
  /\ Succeeded
  /\ Len(calls) = 2
  /\ params.state = "stopped"
  /\ services[params.name] = [running |-> FALSE, policy |-> params.policy]

(***************************************************************************)
(* C23.  vmware_esxi_facts is read-only: for every selection and every     *)
(* host, no step of an invocation issues a remote mutation call or changes *)
(* the host (services, date-time configuration, advanced options,          *)
(* inventory), and every success report has changed=false.                 *)
(***************************************************************************)
C23_State ==
  prog = "vmware_esxi_facts" =>
    /\ NumCalls(MutationOps) = 0
    /\ \A i \in DOMAIN reports :
         reports[i].kind = "exit_json" => ~reports[i].changed
    /\ ~result.changed

C23_Step == prog = "vmware_esxi_facts" => hostVars' = hostVars

C23_ReadOnly == C23_State /\ [][C23_Step /\ C23_State']_vars

\* A second invocation reported all five categories of a host with two
\* mounts, after a first one that succeeded as well.
C23_Witness ==
  /\ prog = "vmware_esxi_facts"
  /\ run = 2
  /\ prev = "unchanged"
  /\ Succeeded
  /\ params.types = "all"
  /\ Len(inventory.mountInfo) = 2
  /\ ~reports[1].changed
  /\ reports[1].facts # <<>>
  /\ calls = <<>>

====
